---- MODULE Spec2Model ----
(***************************************************************************)
(* Offline-first book cache of dassodev/dasso.                             *)
(*                                                                         *)
(* LocalStorageService (Record Store + Blob Cache) and BookService         *)
(* (Reconciler) are modelled as a state machine.  Every `await` of the     *)
(* source is a suspension point: an asynchronous method is a sequence of   *)
(* actions, one per await, and calls made by different callers interleave  *)
(* at these points.  The record store follows the sql.js branch of         *)
(* initializeStorage, whose result shape transformQueryResult decodes.     *)
(*                                                                         *)
(* Time is counted in days, so CACHE_DURATION (7 days) is 7.               *)
(***************************************************************************)
EXTENDS Integers, Sequences, FiniteSets, TLC

(* ---------------------------------------------------------------------- *)
(* Bounds of the model                                                     *)
(* ---------------------------------------------------------------------- *)
NProcs == 2
MaxTime == 7
MaxEvents == 4
MaxProgress == 1

(* ---------------------------------------------------------------------- *)
(* Program constants                                                       *)
(* ---------------------------------------------------------------------- *)
CACHE_DURATION == 7

Procs == 1..NProcs
\* The clock readings of the model: the start, and the instants from one cache
\* duration after the start on.
Instants == {t \in 0..MaxTime : t = 0 \/ t >= CACHE_DURATION}
NULL == "null"
NOPATH == <<>>
RemoteIds == {<<"uuid", 1>>, <<"uuid", 2>>}
UserFiles == {"fileA"}
AssetTypes == {"content", "narration", "podcast"}

VARIABLES
  sqlite,       \* LocalStorageService.sqlite: "null" until initializeStorage sets it
  initPending,  \* the initializeStorage() started by the constructor has not settled
  books,        \* rows of table `books`, in rowid order
  files,        \* Filesystem, Directory.Data: path -> base64 data
  now,          \* Date.now(), in days
  remote,       \* rows of the Supabase table `books`, by id
  call,         \* the asynchronous calls in progress, one slot per caller
  events,       \* number of calls, clock changes and catalog changes so far
  coverCache,   \* CoverService.coverCache: bookId -> [dataUrl, timestamp]
  auth          \* AuthProvider: the Supabase session, localStorage sessionExpiry,
                \* the pending setTimeout timers and the pending awaits

vars == <<sqlite, initPending, books, files, now, remote, call, events, coverCache, auth>>

\* AuthProvider when the page has just loaded: the session and sessionExpiry
\* are what localStorage holds, no timer is set, and the effect has called
\* checkAndHandleSession, which awaits getSession(). <<>> stands for null.
AuthOnLoad(session, sessionExpiry) ==
  [session |-> session, sessionExpiry |-> sessionExpiry, timers |-> {},
   tasks |-> {[kind |-> "checkSession", by |-> "load", rememberMe |-> FALSE]}]

(* ---------------------------------------------------------------------- *)
(* Sequence helpers                                                        *)
(* ---------------------------------------------------------------------- *)
Range(s) == {s[k] : k \in 1..Len(s)}

(* ---------------------------------------------------------------------- *)
(* LocalStorageService: Record Store                                       *)
(* ---------------------------------------------------------------------- *)

\* The columns that hold JSON text and the columns that hold 0/1.
JsonColumns == {"highlighted_words", "difficult_words", "vocab_mastery"}
BooleanColumns == {"is_favorite", "is_offline", "is_manual", "synced_with_supabase"}

\* A column text is <<>> (SQL NULL or the empty string), <<"json", v>> (the
\* JSON text of value v) or <<"corrupt">> (a text that is not JSON).
JsonStringify(value) == <<"json", value>>

\* JSON.parse: the value, or a SyntaxError thrown.
JsonParse(text) ==
  IF text[1] = "json" THEN [threw |-> FALSE, value |-> text[2]]
  ELSE [threw |-> TRUE, value |-> <<"SyntaxError">>]

ParseJsonColumn_NoCatch(text) ==
  JsonParse(IF text = <<>> THEN JsonStringify(<<>>) ELSE text).value

\* try { JSON.parse(row[index] || '[]') } catch { [] }
ParseJsonColumn(text) ==
  LET parsed == JsonParse(IF text = <<>> THEN JsonStringify(<<>>) ELSE text)
  IN  IF parsed.threw THEN <<>> ELSE parsed.value

\* saveBook's `values` array: booleans are bound as 1/0, the word lists as
\* JSON text.
ToRow(book) ==
  [col \in DOMAIN book |->
     IF col \in JsonColumns THEN JsonStringify(book[col])
     ELSE IF col \in BooleanColumns THEN (IF book[col] THEN 1 ELSE 0)
     ELSE book[col]]

FromRow_FlagsAlwaysTrue(row) ==
  [row EXCEPT !.is_manual = TRUE, !.synced_with_supabase = TRUE]

\* One row of transformQueryResult: the JSON columns are parsed,
\* Boolean(row[index]) for the boolean columns, the other columns as stored.
FromRow(row) ==
  [col \in DOMAIN row |->
     IF col \in JsonColumns THEN ParseJsonColumn(row[col])
     ELSE IF col \in BooleanColumns THEN row[col] # 0
     ELSE row[col]]

\* INSERT OR REPLACE INTO books: the row with the same primary key is deleted,
\* the new row gets a fresh rowid.
InsertOrReplace_Truncates(rows, row) == <<row>>

InsertOrReplace(rows, row) ==
  SelectSeq(rows, LAMBDA r : r.id # row.id) \o <<row>>

\* this.sqlite?.run(INSERT OR REPLACE ...): nothing is run while sqlite is null.
SaveBook(db, rows, book) ==
  IF db = "null" THEN rows ELSE InsertOrReplace(rows, ToRow(book))

\* transformQueryResult over the result of this.sqlite?.execute(query):
\* undefined (sqlite is null) and an empty result both give [].
TransformQueryResult(db, rows) ==
  IF db = "null" THEN <<>>
  ELSE [k \in 1..Len(rows) |-> FromRow(rows[k])]

GetBooks(db, rows) == TransformQueryResult(db, rows)

\* getBook: <<>> stands for null, <<b>> for the book found.
GetBook(db, rows, id) ==
  LET found == TransformQueryResult(db, SelectSeq(rows, LAMBDA r : r.id = id))
  IN  IF Len(found) > 0 THEN <<found[1]>> ELSE <<>>

\* this.sqlite?.run(DELETE FROM books WHERE id = ?)
DeleteRow(db, rows, id) ==
  IF db = "null" THEN rows ELSE SelectSeq(rows, LAMBDA r : r.id # id)

(* ---------------------------------------------------------------------- *)
(* LocalStorageService: Blob Cache                                         *)
(* ---------------------------------------------------------------------- *)

\* readAsDataURL(blob) followed by split('base64,')[1]
Base64Of(bytes) == <<"base64", bytes>>

\* `${Date.now()}_${fileType}` under cache/
CachePath(t, fileType) == <<t, fileType>>

\* Filesystem.writeFile({path, data}): creates or overwrites the file.
WriteFile(fs, path, data) ==
  [q \in (DOMAIN fs) \cup {path} |-> IF q = path THEN data ELSE fs[q]]

\* Filesystem.deleteFile({path}): throws when the file is absent; the caller
\* catches, so the file system is unchanged then.
DeleteFile(fs, path) ==
  [q \in (DOMAIN fs) \ {path} |-> fs[q]]

\* fetch(`data:application/epub+zip;base64,${data}`).blob(): the bytes that
\* the base64 string encodes.
Base64Decode(data) == data[2]

\* readCachedFile(path): <<bytes>> for the blob read, <<>> when readFile
\* throws because there is no such file.
ReadCachedFile(fs, path) ==
  IF path \in DOMAIN fs THEN <<Base64Decode(fs[path])>> ELSE <<>>

FileTypeOf(asset) == IF asset = "content" THEN "epub" ELSE "audio"

LocalPath(book, asset) ==
  CASE asset = "content" -> book.local_content_path
    [] asset = "narration" -> book.local_narration_path
    [] asset = "podcast" -> book.local_podcast_path

(* ---------------------------------------------------------------------- *)
(* Initial state: the module-level singletons have just been constructed.  *)
(* ---------------------------------------------------------------------- *)
\* The url under which the remote catalog publishes a file of the book id.
Url(id, name) ==
  CASE name = "c1" -> <<"b1/c1", "b2/c1">>[id[2]]
    [] name = "c2" -> <<"b1/c2", "b2/c2">>[id[2]]
    [] name = "n1" -> <<"b1/n1", "b2/n1">>[id[2]]
    [] name = "p1" -> <<"b1/p1", "b2/p1">>[id[2]]

RemoteRow(id, title, curl, nurl, purl, progress) ==
  [id |-> id, title |-> title, content_url |-> curl, narration_url |-> nurl,
   podcast_url |-> purl, read_progress |-> progress, updated_at |-> 0,
   synced_with_supabase |-> TRUE]

Idle == [op |-> "idle", pc |-> "idle"]

Init ==
  /\ sqlite = "null"
  /\ initPending = TRUE
  /\ books = <<>>
  /\ files = <<>>
  /\ now = 0
  /\ remote = <<>>
  /\ call = [p \in Procs |-> Idle]
  /\ events = 0
  /\ coverCache = <<>>
  /\ auth = AuthOnLoad(<<>>, <<>>)

(* ---------------------------------------------------------------------- *)
(* Environment: storage initialisation, clock, connectivity, remote side   *)
(* ---------------------------------------------------------------------- *)

\* initializeStorage, web branch: initSqlJs resolved, `new Database()` is an
\* empty in-memory database, this.sqlite is set and createTables runs.
InitializeStorageDone ==
  /\ initPending
  /\ initPending' = FALSE
  /\ sqlite' = "ready"
  /\ books' = <<>>
  /\ UNCHANGED <<files, now, remote, call, events, coverCache, auth>>

\* initializeStorage: initSqlJs rejected; the catch block logs and this.sqlite
\* stays null.
InitializeStorageFail ==
  /\ initPending
  /\ initPending' = FALSE
  /\ UNCHANGED <<sqlite, books, files, now, remote, call, events, coverCache, auth>>

\* No call of the application is in progress.
Quiescent == \A p \in Procs : call[p] = Idle

\* Date.now() advances between two calls of the application.
Tick ==
  /\ Quiescent
  /\ events < MaxEvents
  /\ events' = events + 1
  /\ \E t \in Instants :
       /\ t > now
       /\ now' = t
  /\ UNCHANGED <<sqlite, initPending, books, files, remote, call, coverCache, auth>>

\* A row appears in the remote catalog, between two calls of the application.
\* Rows are created in the order of their ids; the first one may come with a
\* narration and a podcast.
RemoteInsert ==
  /\ Quiescent
  /\ events < MaxEvents
  /\ \E id \in RemoteIds \ DOMAIN remote, audio \in BOOLEAN :
       /\ id[2] > 1 => ~audio
       /\ \A other \in RemoteIds : other[2] < id[2] => other \in DOMAIN remote
       /\ remote' = [r \in (DOMAIN remote) \cup {id} |->
                       IF r = id
                       THEN RemoteRow(id, "A", Url(id, "c1"),
                                      IF audio THEN Url(id, "n1") ELSE NULL,
                                      IF audio THEN Url(id, "p1") ELSE NULL, 0)
                       ELSE remote[r]]
  /\ events' = events + 1
  /\ UNCHANGED <<sqlite, initPending, books, files, now, call, coverCache, auth>>

\* A row of the remote catalog is changed by its owner: a new edition (title
\* and content_url change) or a narration is published.
RemoteChange ==
  /\ Quiescent
  /\ events < MaxEvents
  /\ \E id \in DOMAIN remote :
       \/ /\ remote[id].title = "A"
          /\ remote' = [remote EXCEPT ![id].title = "B", ![id].content_url = Url(id, "c2")]
       \/ /\ remote[id].narration_url = NULL
          /\ remote' = [remote EXCEPT ![id].narration_url = Url(id, "n1")]
  /\ events' = events + 1
  /\ UNCHANGED <<sqlite, initPending, books, files, now, call, coverCache, auth>>

\* A caller starts a call in the first free slot.
CanStart(p) ==
  /\ call[p] = Idle
  /\ events < MaxEvents
  /\ \A q \in Procs : q < p => call[q] # Idle

\* The ids a caller can name: those of the remote catalog and those stored.
CallIds == RemoteIds \cup {books[k].id : k \in 1..Len(books)}

(* ---------------------------------------------------------------------- *)
(* BookService.fetchBooks and processSupabaseBooks                         *)
(* ---------------------------------------------------------------------- *)

IsValidBook_ExpiryInclusive(book, t) == book.is_manual \/ book.cache_expiry >= t

\* validBooks: book.is_manual || (book.cache_expiry && book.cache_expiry > now)
IsValidBook(book, t) == book.is_manual \/ book.cache_expiry > t

ValidBooks(localBooks, t) == SelectSeq(localBooks, LAMBDA b : IsValidBook(b, t))

\* manualBooks = validBooks.filter(book => book.is_manual)
ManualBooks(validBooks) == SelectSeq(validBooks, LAMBDA b : b.is_manual)

\* supabase.from('books').select('*').order('created_at', {ascending: false});
\* rows are created in the order of their ids.
RECURSIVE SelectAllDesc(_, _)
SelectAllDesc(catalog, ids) ==
  IF ids = {} THEN <<>>
  ELSE LET m == CHOOSE x \in ids : \A y \in ids : y[2] <= x[2]
       IN  <<catalog[m]>> \o SelectAllDesc(catalog, ids \ {m})

FetchCall(pc, validBooks) ==
  [op |-> "fetchBooks", pc |-> pc, validBooks |-> validBooks,
   supabaseBooks |-> <<>>, localBook |-> <<>>, newLocalBook |-> <<>>,
   processedBooks |-> <<>>, result |-> <<>>, via |-> "none", error |-> "none"]

FetchReturn(c, result, via) ==
  [FetchCall("done", <<>>) EXCEPT !.result = result, !.via = via]

SelectFailed_Rethrows(c) ==
  [FetchReturn(c, <<>>, "remoteFailed") EXCEPT !.error = "thrown"]

\* `if (error) { console.error(...); return validBooks; }`
SelectFailed(c) == FetchReturn(c, c.validBooks, "remoteFailed")

ProcessNext_KeepsValid(c, rest, processed) ==
  IF rest = <<>>
  THEN FetchReturn(c, processed \o c.validBooks, "merged")
  ELSE [c EXCEPT !.pc = "getBook", !.supabaseBooks = rest, !.localBook = <<>>,
                 !.newLocalBook = <<>>, !.processedBooks = processed]

\* Head of the for-loop of processSupabaseBooks over the rows still to do;
\* after the last row fetchBooks returns [...processedBooks, ...manualBooks].
ProcessNext(c, rest, processed) ==
  IF rest = <<>>
  THEN FetchReturn(c, processed \o ManualBooks(c.validBooks), "merged")
  ELSE [c EXCEPT !.pc = "getBook", !.supabaseBooks = rest, !.localBook = <<>>,
                 !.newLocalBook = <<>>, !.processedBooks = processed]

HasLocalPath(localBook, asset) ==
  /\ localBook # <<>>
  /\ LocalPath(localBook[1], asset) # NOPATH

RemoteUrl(book, asset) ==
  CASE asset = "content" -> book.content_url
    [] asset = "narration" -> book.narration_url
    [] asset = "podcast" -> book.podcast_url

\* The three `if` statements that guard cacheFile, in source order.
NeedsCache(book, localBook, asset) ==
  CASE asset = "content" -> ~HasLocalPath(localBook, "content")
    [] asset = "narration" ->
         book.narration_url # NULL /\ ~HasLocalPath(localBook, "narration")
    [] asset = "podcast" ->
         book.podcast_url # NULL /\ ~HasLocalPath(localBook, "podcast")

CachePc(asset) ==
  CASE asset = "content" -> "cacheContent"
    [] asset = "narration" -> "cacheNarration"
    [] asset = "podcast" -> "cachePodcast"

\* The next await of the loop body once the assets in `done` are dealt with.
PcAfter(book, localBook, done) ==
  IF "content" \notin done /\ NeedsCache(book, localBook, "content")
    THEN CachePc("content")
  ELSE IF "narration" \notin done /\ NeedsCache(book, localBook, "narration")
    THEN CachePc("narration")
  ELSE IF "podcast" \notin done /\ NeedsCache(book, localBook, "podcast")
    THEN CachePc("podcast")
  ELSE "saveBook"

\* newLocalBook = {...book, is_manual: false, cache_expiry, local_*_path:
\* localBook?.local_*_path || null, synced_with_supabase: true}
NewLocalBook(book, localBook, t) ==
  [id |-> book.id, title |-> book.title, content_url |-> book.content_url,
   narration_url |-> book.narration_url, podcast_url |-> book.podcast_url,
   read_progress |-> book.read_progress, updated_at |-> book.updated_at,
   is_manual |-> FALSE,
   cache_expiry |-> t + CACHE_DURATION,
   local_content_path |->
     IF localBook # <<>> THEN localBook[1].local_content_path ELSE NOPATH,
   local_narration_path |->
     IF localBook # <<>> THEN localBook[1].local_narration_path ELSE NOPATH,
   local_podcast_path |->
     IF localBook # <<>> THEN localBook[1].local_podcast_path ELSE NOPATH,
   synced_with_supabase |-> TRUE]

SetLocalPath(book, asset, path) ==
  CASE asset = "content" -> [book EXCEPT !.local_content_path = path]
    [] asset = "narration" -> [book EXCEPT !.local_narration_path = path]
    [] asset = "podcast" -> [book EXCEPT !.local_podcast_path = path]

\* fetchBooks up to the offline return: getBooks, the expiry filter, and
\* `if (!navigator.onLine) return validBooks`.
FetchBooks(p) ==
  /\ CanStart(p)
  /\ events' = events + 1
  /\ LET validBooks == ValidBooks(GetBooks(sqlite, books), now)
     IN  \E onLine \in BOOLEAN :
           call' = [call EXCEPT ![p] =
                      IF ~onLine THEN FetchReturn(call[p], validBooks, "offline")
                      ELSE FetchCall("select", validBooks)]
  /\ UNCHANGED <<sqlite, initPending, books, files, now, remote, coverCache, auth>>

\* await supabase.from('books').select('*'): on error return validBooks,
\* otherwise enter processSupabaseBooks(supabaseBooks || []).
FetchBooksSelect(p) ==
  /\ call[p].op = "fetchBooks"
  /\ call[p].pc = "select"
  /\ \E ok \in BOOLEAN :
       call' = [call EXCEPT ![p] =
                  IF ok
                  THEN ProcessNext(call[p], SelectAllDesc(remote, DOMAIN remote), <<>>)
                  ELSE SelectFailed(call[p])]
  /\ UNCHANGED <<sqlite, initPending, books, files, now, remote, events, coverCache, auth>>

\* await localStorageService.getBook(book.id), then cacheExpiry and
\* newLocalBook, up to the next await of the loop body.
ProcessGetBook(p) ==
  /\ call[p].op = "fetchBooks"
  /\ call[p].pc = "getBook"
  /\ LET book == Head(call[p].supabaseBooks)
         localBook == GetBook(sqlite, books, book.id)
     IN  call' = [call EXCEPT ![p] =
                    [call[p] EXCEPT !.localBook = localBook,
                                    !.newLocalBook = <<NewLocalBook(book, localBook, now)>>,
                                    !.pc = PcAfter(book, localBook, {})]]
  /\ UNCHANGED <<sqlite, initPending, books, files, now, remote, events, coverCache, auth>>

\* await localStorageService.cacheFile(url, fileType) inside the loop body:
\* the fetch and the write succeed and the path is recorded, or cacheFile
\* throws and the catch block of the loop body moves on to the next row.
ProcessCacheFile(p, asset) ==
  /\ call[p].op = "fetchBooks"
  /\ call[p].pc = CachePc(asset)
  /\ LET c == call[p]
         book == Head(c.supabaseBooks)
         path == CachePath(now, FileTypeOf(asset))
     IN  \E ok \in BOOLEAN :
           IF ok
           THEN /\ files' = WriteFile(files, path, Base64Of(RemoteUrl(book, asset)))
                /\ call' = [call EXCEPT ![p] =
                     [c EXCEPT !.newLocalBook = <<SetLocalPath(c.newLocalBook[1], asset, path)>>,
                               !.pc = PcAfter(book, c.localBook,
                                        CASE asset = "content" -> {"content"}
                                          [] asset = "narration" -> {"content", "narration"}
                                          [] asset = "podcast" -> AssetTypes)]]
           ELSE /\ files' = files
                /\ call' = [call EXCEPT ![p] =
                     ProcessNext(c, Tail(c.supabaseBooks), c.processedBooks)]
  /\ UNCHANGED <<sqlite, initPending, books, now, remote, events, coverCache, auth>>

\* await localStorageService.saveBook(newLocalBook); processedBooks.push(...)
ProcessSaveBook(p) ==
  /\ call[p].op = "fetchBooks"
  /\ call[p].pc = "saveBook"
  /\ LET c == call[p]
     IN  /\ books' = SaveBook(sqlite, books, c.newLocalBook[1])
         /\ call' = [call EXCEPT ![p] =
              ProcessNext(c, Tail(c.supabaseBooks),
                          Append(c.processedBooks, c.newLocalBook[1]))]
  /\ UNCHANGED <<sqlite, initPending, files, now, remote, events, coverCache, auth>>

(* ---------------------------------------------------------------------- *)
(* BookService.updateBookProgress                                          *)
(* ---------------------------------------------------------------------- *)
UpdateCall(pc, bookId, progress, localBook) ==
  [op |-> "updateBookProgress", pc |-> pc, bookId |-> bookId,
   progress |-> progress, localBook |-> localBook, onLine |-> FALSE,
   remoteIssued |-> FALSE, error |-> "none"]

UpdateAfterLocal_NoLocalCheck(c, onLine) ==
  IF onLine
  THEN [c EXCEPT !.pc = "remoteUpdate", !.onLine = onLine, !.remoteIssued = TRUE]
  ELSE [c EXCEPT !.pc = "done", !.onLine = onLine]

UpdateAfterLocal_IgnoresOnLine(c, onLine) ==
  IF c.localBook # <<>> /\ c.localBook[1].synced_with_supabase
  THEN [c EXCEPT !.pc = "remoteUpdate", !.onLine = onLine, !.remoteIssued = TRUE]
  ELSE [c EXCEPT !.pc = "done", !.onLine = onLine]

UpdateAfterLocal_IgnoresSynced(c, onLine) ==
  IF c.localBook # <<>> /\ onLine
  THEN [c EXCEPT !.pc = "remoteUpdate", !.onLine = onLine, !.remoteIssued = TRUE]
  ELSE [c EXCEPT !.pc = "done", !.onLine = onLine]

\* The `if (localBook?.synced_with_supabase && navigator.onLine)` after the
\* local write.
UpdateAfterLocal(c, onLine) ==
  IF c.localBook # <<>> /\ c.localBook[1].synced_with_supabase /\ onLine
  THEN [c EXCEPT !.pc = "remoteUpdate", !.onLine = onLine, !.remoteIssued = TRUE]
  ELSE [c EXCEPT !.pc = "done", !.onLine = onLine]

\* await getBook(bookId); if found, read_progress and updated_at are set on
\* the object read and saveBook is called with it.
UpdateBookProgress(p) ==
  /\ CanStart(p)
  /\ events' = events + 1
  /\ \E bookId \in CallIds, progress \in 1..MaxProgress, onLine \in BOOLEAN :
       LET localBook == GetBook(sqlite, books, bookId)
       IN  call' = [call EXCEPT ![p] =
             IF localBook # <<>>
             THEN UpdateCall("saveBook", bookId, progress,
                    <<[localBook[1] EXCEPT !.read_progress = progress,
                                           !.updated_at = now]>>)
             ELSE UpdateAfterLocal(UpdateCall("getBook", bookId, progress, <<>>), onLine)]
  /\ UNCHANGED <<sqlite, initPending, books, files, now, remote, coverCache, auth>>

\* await saveBook(localBook), then the test for the remote update.
UpdateSaveBook(p) ==
  /\ call[p].op = "updateBookProgress"
  /\ call[p].pc = "saveBook"
  /\ books' = SaveBook(sqlite, books, call[p].localBook[1])
  /\ \E onLine \in BOOLEAN :
       call' = [call EXCEPT ![p] = UpdateAfterLocal(call[p], onLine)]
  /\ UNCHANGED <<sqlite, initPending, files, now, remote, events, coverCache, auth>>

UpdateRemote_Retries(p) ==
  /\ call[p].op = "updateBookProgress"
  /\ call[p].pc = "remoteUpdate"
  /\ \E ok \in BOOLEAN :
       /\ remote' = IF ok /\ call[p].bookId \in DOMAIN remote
                    THEN [remote EXCEPT ![call[p].bookId].read_progress = call[p].progress]
                    ELSE remote
       /\ call' = [call EXCEPT ![p] =
                     [call[p] EXCEPT !.pc = IF ok THEN "done" ELSE "remoteUpdate",
                                     !.error = IF ok THEN "none" ELSE "logged"]]
  /\ UNCHANGED <<sqlite, initPending, books, files, now, events, coverCache, auth>>

\* await supabase.from('books').update({read_progress}).eq('id', bookId):
\* the row, if there is one, is updated, or the request fails and the error
\* is logged.
UpdateRemote(p) ==
  /\ call[p].op = "updateBookProgress"
  /\ call[p].pc = "remoteUpdate"
  /\ \E ok \in BOOLEAN :
       /\ remote' = IF ok /\ call[p].bookId \in DOMAIN remote
                    THEN [remote EXCEPT ![call[p].bookId].read_progress = call[p].progress]
                    ELSE remote
       /\ call' = [call EXCEPT ![p] =
                     [call[p] EXCEPT !.pc = "done",
                                     !.error = IF ok THEN "none" ELSE "logged"]]
  /\ UNCHANGED <<sqlite, initPending, books, files, now, events, coverCache, auth>>

(* ---------------------------------------------------------------------- *)
(* BookService.addManualBook                                               *)
(* ---------------------------------------------------------------------- *)
ManualId(t) == <<"manual", t>>

\* The LocalBook literal of addManualBook.
NewManualBook(bookId, file, createdAt, t, localContentPath) ==
  [id |-> bookId, title |-> file, content_url |-> file,
   narration_url |-> NULL, podcast_url |-> NULL,
   read_progress |-> 0, updated_at |-> createdAt,
   is_manual |-> TRUE,
   cache_expiry |-> t + CACHE_DURATION,
   local_content_path |-> localContentPath,
   local_narration_path |-> NOPATH,
   local_podcast_path |-> NOPATH,
   synced_with_supabase |-> FALSE]

\* `now` and bookId = `manual_${Date.now()}`, then cacheFile is called.
AddManualBook(p) ==
  /\ CanStart(p)
  /\ events' = events + 1
  /\ \E file \in UserFiles :
       call' = [call EXCEPT ![p] =
                  [op |-> "addManualBook", pc |-> "cacheFile", bookId |-> ManualId(now),
                   file |-> file, createdAt |-> now, newBook |-> <<>>,
                   result |-> <<>>, error |-> "none"]]
  /\ UNCHANGED <<sqlite, initPending, books, files, now, remote, coverCache, auth>>

\* await cacheFile(URL.createObjectURL(file), 'epub'), then newBook is built;
\* an exception of cacheFile is rethrown to the caller.
AddManualCacheFile(p) ==
  /\ call[p].op = "addManualBook"
  /\ call[p].pc = "cacheFile"
  /\ LET c == call[p]
         path == CachePath(now, "epub")
     IN  \E ok \in BOOLEAN :
           IF ok
           THEN /\ files' = WriteFile(files, path, Base64Of(c.file))
                /\ call' = [call EXCEPT ![p] =
                     [c EXCEPT !.pc = "saveBook",
                               !.newBook = <<NewManualBook(c.bookId, c.file, c.createdAt,
                                                           now, path)>>]]
           ELSE /\ files' = files
                /\ call' = [call EXCEPT ![p] = [c EXCEPT !.pc = "done", !.error = "thrown"]]
  /\ UNCHANGED <<sqlite, initPending, books, now, remote, events, coverCache, auth>>

\* await saveBook(newBook); return newBook
AddManualSaveBook(p) ==
  /\ call[p].op = "addManualBook"
  /\ call[p].pc = "saveBook"
  /\ books' = SaveBook(sqlite, books, call[p].newBook[1])
  /\ call' = [call EXCEPT ![p] =
                [call[p] EXCEPT !.pc = "done", !.result = call[p].newBook]]
  /\ UNCHANGED <<sqlite, initPending, files, now, remote, events, coverCache, auth>>

(* ---------------------------------------------------------------------- *)
(* BookService.removeBook, LocalStorageService.deleteBook                  *)
(* ---------------------------------------------------------------------- *)
RemoveCall(pc, bookId, error) ==
  [op |-> "removeBook", pc |-> pc, bookId |-> bookId, localBook |-> <<>>,
   filesToDelete |-> <<>>, error |-> error]

\* filesToDelete of deleteBookFiles: the three paths that are not null.
FilesToDelete(book) ==
  SelectSeq(<<book.local_content_path, book.local_narration_path,
              book.local_podcast_path>>, LAMBDA path : path # NOPATH)

PermissionError == "Cannot remove non-manual books"

RemoveOutcome_NotFoundRejected(bookId, localBook) ==
  IF localBook = <<>> THEN RemoveCall("done", bookId, PermissionError)
  ELSE IF ~localBook[1].is_manual
    THEN [RemoveCall("done", bookId, PermissionError) EXCEPT !.localBook = localBook]
  ELSE [RemoveCall("deleteRun", bookId, "none") EXCEPT !.localBook = localBook]

RemoveOutcome_NoManualCheck(bookId, localBook) ==
  IF localBook = <<>> THEN RemoveCall("done", bookId, "none")
  ELSE [RemoveCall("deleteRun", bookId, "none") EXCEPT !.localBook = localBook]

\* removeBook after `await getBook(bookId)`: return when there is no such
\* book, throw when it is not manual, otherwise call deleteBook.
RemoveOutcome(bookId, localBook) ==
  IF localBook = <<>> THEN RemoveCall("done", bookId, "none")
  ELSE IF ~localBook[1].is_manual
    THEN [RemoveCall("done", bookId, PermissionError) EXCEPT !.localBook = localBook]
  ELSE [RemoveCall("deleteRun", bookId, "none") EXCEPT !.localBook = localBook]

RemoveBook(p) ==
  /\ CanStart(p)
  /\ events' = events + 1
  /\ \E bookId \in CallIds :
       call' = [call EXCEPT ![p] = RemoveOutcome(bookId, GetBook(sqlite, books, bookId))]
  /\ UNCHANGED <<sqlite, initPending, books, files, now, remote, coverCache, auth>>

\* deleteBook: await this.sqlite?.run('DELETE FROM books WHERE id = ?')
DeleteBookRun(p) ==
  /\ call[p].op = "removeBook"
  /\ call[p].pc = "deleteRun"
  /\ books' = DeleteRow(sqlite, books, call[p].bookId)
  /\ call' = [call EXCEPT ![p] = [call[p] EXCEPT !.pc = "deleteGetBook"]]
  /\ UNCHANGED <<sqlite, initPending, files, now, remote, events, coverCache, auth>>

\* deleteBook: `const book = await this.getBook(id); if (book) deleteBookFiles`
DeleteBookGetBook(p) ==
  /\ call[p].op = "removeBook"
  /\ call[p].pc = "deleteGetBook"
  /\ LET book == GetBook(sqlite, books, call[p].bookId)
         toDelete == IF book = <<>> THEN <<>> ELSE FilesToDelete(book[1])
     IN  call' = [call EXCEPT ![p] =
           [call[p] EXCEPT !.filesToDelete = toDelete,
                           !.pc = IF toDelete = <<>> THEN "done" ELSE "deleteFile"]]
  /\ UNCHANGED <<sqlite, initPending, books, files, now, remote, events, coverCache, auth>>

\* deleteBookFiles: one await Filesystem.deleteFile per path.
DeleteBookFile(p) ==
  /\ call[p].op = "removeBook"
  /\ call[p].pc = "deleteFile"
  /\ LET rest == Tail(call[p].filesToDelete)
     IN  /\ files' = DeleteFile(files, Head(call[p].filesToDelete))
         /\ call' = [call EXCEPT ![p] =
              [call[p] EXCEPT !.filesToDelete = rest,
                              !.pc = IF rest = <<>> THEN "done" ELSE "deleteFile"]]
  /\ UNCHANGED <<sqlite, initPending, books, now, remote, events, coverCache, auth>>

\* The caller has taken the outcome of its call.
Return(p) ==
  /\ call[p].pc = "done"
  /\ call' = [call EXCEPT ![p] = Idle]
  /\ UNCHANGED <<sqlite, initPending, books, files, now, remote, events, coverCache, auth>>

\* A settled call resumes its caller before anything else runs.
NoneDone == \A p \in Procs : call[p].pc # "done"

Next ==
  \/ \E p \in Procs : Return(p)
  \/ NoneDone /\ InitializeStorageDone
  \/ NoneDone /\ InitializeStorageFail
  \/ NoneDone /\ Tick
  \/ NoneDone /\ RemoteInsert
  \/ NoneDone /\ RemoteChange
  \/ NoneDone /\ \E p \in Procs : FetchBooks(p)
  \/ NoneDone /\ \E p \in Procs : FetchBooksSelect(p)
  \/ NoneDone /\ \E p \in Procs : ProcessGetBook(p)
  \/ NoneDone /\ \E p \in Procs, asset \in AssetTypes : ProcessCacheFile(p, asset)
  \/ NoneDone /\ \E p \in Procs : ProcessSaveBook(p)
  \/ NoneDone /\ \E p \in Procs : UpdateBookProgress(p)
  \/ NoneDone /\ \E p \in Procs : UpdateSaveBook(p)
  \/ NoneDone /\ \E p \in Procs : UpdateRemote(p)
  \/ NoneDone /\ \E p \in Procs : AddManualBook(p)
  \/ NoneDone /\ \E p \in Procs : AddManualCacheFile(p)
  \/ NoneDone /\ \E p \in Procs : AddManualSaveBook(p)
  \/ NoneDone /\ \E p \in Procs : RemoveBook(p)
  \/ NoneDone /\ \E p \in Procs : DeleteBookRun(p)
  \/ NoneDone /\ \E p \in Procs : DeleteBookGetBook(p)
  \/ NoneDone /\ \E p \in Procs : DeleteBookFile(p)

Spec == Init /\ [][Next]_vars

\* The calls of the application made one after the other: a call starts when
\* the one before it has returned.
NextSeq == Next /\ \A p \in Procs : p > 1 => call'[p] = Idle

SpecSeq == Init /\ [][NextSeq]_vars

\* The application with a library already merged: the state that Spec reaches
\* when the storage is initialised, the catalog lists book 1 and a first
\* fetchBooks has merged and cached it at time 0.
FirstBook == <<"uuid", 1>>

InitMerged ==
  /\ sqlite = "ready"
  /\ initPending = FALSE
  /\ remote = [id \in {FirstBook} |-> RemoteRow(id, "A", Url(id, "c1"), NULL, NULL, 0)]
  /\ books = SaveBook("ready", <<>>,
                SetLocalPath(NewLocalBook(remote[FirstBook], <<>>, 0),
                             "content", CachePath(0, FileTypeOf("content"))))
  /\ files = WriteFile(<<>>, CachePath(0, FileTypeOf("content")),
                       Base64Of(Url(FirstBook, "c1")))
  /\ now = 0
  /\ call = [p \in Procs |-> Idle]
  /\ events = 0
  /\ coverCache = <<>>
  /\ auth = AuthOnLoad(<<>>, <<>>)

NextMerged ==
  \/ \E p \in Procs : Return(p)
  \/ NoneDone /\ Tick
  \/ NoneDone /\ RemoteInsert
  \/ NoneDone /\ RemoteChange
  \/ NoneDone /\ \E p \in Procs : FetchBooks(p)
  \/ NoneDone /\ \E p \in Procs : FetchBooksSelect(p)
  \/ NoneDone /\ \E p \in Procs : ProcessGetBook(p)
  \/ NoneDone /\ \E p \in Procs, asset \in AssetTypes : ProcessCacheFile(p, asset)
  \/ NoneDone /\ \E p \in Procs : ProcessSaveBook(p)
  \/ NoneDone /\ \E p \in Procs : UpdateBookProgress(p)
  \/ NoneDone /\ \E p \in Procs : UpdateSaveBook(p)
  \/ NoneDone /\ \E p \in Procs : UpdateRemote(p)
  \/ NoneDone /\ \E p \in Procs : AddManualBook(p)
  \/ NoneDone /\ \E p \in Procs : AddManualCacheFile(p)
  \/ NoneDone /\ \E p \in Procs : AddManualSaveBook(p)
  \/ NoneDone /\ \E p \in Procs : RemoveBook(p)
  \/ NoneDone /\ \E p \in Procs : DeleteBookRun(p)
  \/ NoneDone /\ \E p \in Procs : DeleteBookGetBook(p)
  \/ NoneDone /\ \E p \in Procs : DeleteBookFile(p)

SpecMerged == InitMerged /\ [][NextMerged]_vars

\* The process is restarted between two calls: the singletons are
\* constructed again, so sqlite is null until the new initializeStorage
\* settles and the Cover Cache is empty; on the web platform the database is
\* `new initSql.Database()`, an empty database in memory that is never
\* exported, so the table is empty; the Filesystem and the catalog stay.
Restart ==
  /\ Quiescent
  /\ events < MaxEvents
  /\ events' = events + 1
  /\ sqlite' = "null"
  /\ initPending' = TRUE
  /\ books' = <<>>
  /\ coverCache' = <<>>
  /\ auth' = AuthOnLoad(auth.session, auth.sessionExpiry)
  /\ UNCHANGED <<files, now, remote, call>>

NextRestart == Next \/ Restart

SpecRestart == Init /\ [][NextRestart]_vars

(* ---------------------------------------------------------------------- *)
(* CoverService: the Cover Cache                                           *)
(* ---------------------------------------------------------------------- *)

\* CoverService.CACHE_DURATION, in days.
COVER_CACHE_DURATION == 7

MaxCoverTime == 8

CoverIds == {"1", "2"}
CoverTitles == {"A", "B"}
CoverFileTypes == {"epub", "EPUB"}
\* The palette and the plant that generateBookCover draws with Math.random().
CoverVariants == {1, 2}

\* fileType.toUpperCase().replace('APPLICATION/', '').replace('TEXT/', '')
CleanFileType(fileType) ==
  CASE fileType = "epub" -> "EPUB"
    [] fileType = "EPUB" -> "EPUB"

\* The data URL of the SVG: it shows the title and the clean file type in
\* the palette and with the plant that were drawn.
GenerateBookCover(title, fileType, variant) ==
  <<"svg", variant, title, CleanFileType(fileType)>>

IsCoverFresh_Inclusive(cache, bookId, t) ==
  /\ bookId \in DOMAIN cache
  /\ t - cache[bookId].timestamp <= COVER_CACHE_DURATION

\* this.coverCache[bookId] && Date.now() - timestamp < this.CACHE_DURATION
IsCoverFresh(cache, bookId, t) ==
  /\ bookId \in DOMAIN cache
  /\ t - cache[bookId].timestamp < COVER_CACHE_DURATION

\* this.coverCache[bookId] = { dataUrl, timestamp: Date.now() }
PutCover(cache, bookId, dataUrl, t) ==
  [k \in DOMAIN cache \cup {bookId} |->
     IF k = bookId THEN [dataUrl |-> dataUrl, timestamp |-> t] ELSE cache[k]]

\* removeCover: delete this.coverCache[bookId]
RemoveCover(cache, bookId) ==
  [k \in DOMAIN cache \ {bookId} |-> cache[k]]

CoverCall(bookId, title, fileType, dataUrl) ==
  [op |-> "getBookCover", pc |-> "done", bookId |-> bookId, title |-> title,
   fileType |-> fileType, result |-> dataUrl]

\* getBookCover has no await: it runs to completion, and the caller's
\* continuation takes the result.
GetBookCover(p) ==
  /\ call[p] = Idle
  /\ \A q \in Procs : q < p => call[q] # Idle
  /\ \E bookId \in CoverIds, title \in CoverTitles, fileType \in CoverFileTypes,
        variant \in CoverVariants :
       IF IsCoverFresh(coverCache, bookId, now)
         THEN /\ call' = [call EXCEPT ![p] =
                   CoverCall(bookId, title, fileType, coverCache[bookId].dataUrl)]
              /\ UNCHANGED coverCache
         ELSE LET dataUrl == GenerateBookCover(title, fileType, variant)
              IN  /\ coverCache' = PutCover(coverCache, bookId, dataUrl, now)
                  /\ call' = [call EXCEPT ![p] =
                       CoverCall(bookId, title, fileType, dataUrl)]
  /\ UNCHANGED <<sqlite, initPending, books, files, now, remote, events, auth>>

\* cleanupCache, run by the daily interval timer: removeCover for every
\* entry with now - timestamp > CACHE_DURATION.
RECURSIVE RemoveCovers(_, _)
RemoveCovers(cache, bookIds) ==
  IF bookIds = {} THEN cache
  ELSE LET bookId == CHOOSE k \in bookIds : TRUE
       IN  RemoveCovers(RemoveCover(cache, bookId), bookIds \ {bookId})

\* The Cover Cache that cleanupCache leaves when it runs at time t.
SweptCache(cache, t) ==
  RemoveCovers(cache,
    {k \in DOMAIN cache : t - cache[k].timestamp > COVER_CACHE_DURATION})

CleanupCache ==
  /\ coverCache' = SweptCache(coverCache, now)
  /\ UNCHANGED <<sqlite, initPending, books, files, now, remote, call, events, auth>>

\* A day passes.
CoverTick ==
  /\ now < MaxCoverTime
  /\ now' = now + 1
  /\ UNCHANGED <<sqlite, initPending, books, files, remote, call, events, coverCache, auth>>

NextCover ==
  \/ \E p \in Procs : Return(p)
  \/ NoneDone /\ CoverTick
  \/ NoneDone /\ CleanupCache
  \/ NoneDone /\ \E p \in Procs : GetBookCover(p)

SpecCover == Init /\ [][NextCover]_vars

(* ---------------------------------------------------------------------- *)
(* Reading stored rows: getBooks and getBook over any content of the table *)
(* ---------------------------------------------------------------------- *)

\* The texts a JSON column can hold.
JsonTexts == {<<>>, JsonStringify(<<>>), JsonStringify(<<"w">>), <<"corrupt">>}

\* A row of table `books` with the given texts in its JSON columns.
StoredRows(id) ==
  {ToRow(NewLocalBook(RemoteRow(id, "A", Url(id, "c1"), NULL, NULL, 0), <<>>, 0))
     @@ [highlighted_words |-> h, difficult_words |-> d, vocab_mastery |-> v] :
   h \in JsonTexts, d \in JsonTexts, v \in JsonTexts}

InitJson ==
  /\ sqlite = "ready"
  /\ initPending = FALSE
  /\ books \in {<<r>> : r \in StoredRows(<<"uuid", 1>>)}
        \cup {<<r1, r2>> : r1 \in StoredRows(<<"uuid", 1>>), r2 \in StoredRows(<<"uuid", 2>>)}
  /\ files = <<>>
  /\ now = 0
  /\ remote = <<>>
  /\ call = [p \in Procs |-> Idle]
  /\ events = 0
  /\ coverCache = <<>>
  /\ auth = AuthOnLoad(<<>>, <<>>)

\* await localStorageService.getBooks()
ReadBooks(p) ==
  /\ call[p] = Idle
  /\ \A q \in Procs : q < p => call[q] # Idle
  /\ call' = [call EXCEPT ![p] =
       [op |-> "getBooks", pc |-> "done", result |-> GetBooks(sqlite, books)]]
  /\ UNCHANGED <<sqlite, initPending, books, files, now, remote, events, coverCache, auth>>

\* await localStorageService.getBook(id)
ReadBook(p) ==
  /\ call[p] = Idle
  /\ \A q \in Procs : q < p => call[q] # Idle
  /\ \E bookId \in RemoteIds :
       call' = [call EXCEPT ![p] =
         [op |-> "getBook", pc |-> "done", bookId |-> bookId,
          result |-> GetBook(sqlite, books, bookId)]]
  /\ UNCHANGED <<sqlite, initPending, books, files, now, remote, events, coverCache, auth>>

NextJson ==
  \/ \E p \in Procs : Return(p)
  \/ NoneDone /\ \E p \in Procs : ReadBooks(p)
  \/ NoneDone /\ \E p \in Procs : ReadBook(p)

SpecJson == InitJson /\ [][NextJson]_vars

(* ---------------------------------------------------------------------- *)
(* AuthProvider: sign-in, sign-out and the session expiry                  *)
(* ---------------------------------------------------------------------- *)

\* The hour of `60 * 60 * 1000`, in minutes; the clock advances in steps of
\* AuthStep minutes, at most MaxAuthTicks times.
SESSION_DURATION == 60
AuthStep == 30
MaxAuthTicks == 4

AuthTask(kind, by, rememberMe) == [kind |-> kind, by |-> by, rememberMe |-> rememberMe]

\* setTimeout(callback, timeUntilExpiry): the time at which it fires and
\* the code that set it ("signIn" or "load").
AuthTimer(at, by) == [at |-> at, by |-> by]

\* signIn(email, password, rememberMe) up to `await signInWithPassword`.
SignIn ==
  /\ events < MaxEvents
  /\ events' = events + 1
  /\ \E rememberMe \in BOOLEAN :
       /\ AuthTask("signIn", "user", rememberMe) \notin auth.tasks
       /\ auth' = [auth EXCEPT !.tasks = @ \cup {AuthTask("signIn", "user", rememberMe)}]
  /\ UNCHANGED <<sqlite, initPending, books, files, now, remote, call, coverCache>>

\* signIn after the await, with the session that signInWithPassword gave:
\* without rememberMe the expiry is stored and a timer is set that signs
\* out; with rememberMe the stored expiry is removed.
AfterSignIn(a, task, t) ==
  LET session == <<[rememberMe |-> task.rememberMe, since |-> t]>>
  IN  IF ~task.rememberMe
      THEN [a EXCEPT !.session = session,
                     !.sessionExpiry = <<t + SESSION_DURATION>>,
                     !.timers = @ \cup {AuthTimer(t + SESSION_DURATION, "signIn")},
                     !.tasks = @ \ {task}]
      ELSE [a EXCEPT !.session = session,
                     !.sessionExpiry = <<>>,
                     !.tasks = @ \ {task}]

\* signInWithPassword settles: `if (signInError) throw signInError`, or the
\* new session replaces the current one and signIn goes on.
SignInDone ==
  /\ \E task \in auth.tasks :
       /\ task.kind = "signIn"
       /\ \E signInError \in BOOLEAN :
            auth' = IF signInError THEN [auth EXCEPT !.tasks = @ \ {task}]
                    ELSE AfterSignIn(auth, task, now)
  /\ UNCHANGED <<sqlite, initPending, books, files, now, remote, call, events, coverCache>>

\* signOut() of the context, up to `await supabase.auth.signOut()`.
SignOut ==
  /\ events < MaxEvents
  /\ events' = events + 1
  /\ auth.session # <<>>
  /\ AuthTask("signOut", "user", FALSE) \notin auth.tasks
  /\ auth' = [auth EXCEPT !.tasks = @ \cup {AuthTask("signOut", "user", FALSE)}]
  /\ UNCHANGED <<sqlite, initPending, books, files, now, remote, call, coverCache>>

\* A timer fires: its callback runs up to `await supabase.auth.signOut()`.
TimerFires ==
  /\ \E timer \in auth.timers :
       /\ timer.at <= now
       /\ auth' = [auth EXCEPT !.timers = @ \ {timer},
                               !.tasks = @ \cup {AuthTask("signOut", timer.by, FALSE)}]
  /\ UNCHANGED <<sqlite, initPending, books, files, now, remote, call, events, coverCache>>

\* supabase.auth.signOut() settles and ends the current session; the timer
\* set on load and the expired branch of checkAndHandleSession then run
\* localStorage.removeItem('sessionExpiry'), the timer set by signIn and
\* the signOut of the context do not.
AfterSignOut(a, task) ==
  [a EXCEPT !.session = <<>>,
            !.sessionExpiry = IF task.by \in {"load", "storedExpiry"} THEN <<>> ELSE @,
            !.tasks = @ \ {task}]

SignOutDone ==
  /\ \E task \in auth.tasks :
       /\ task.kind = "signOut"
       /\ auth' = AfterSignOut(auth, task)
  /\ UNCHANGED <<sqlite, initPending, books, files, now, remote, call, events, coverCache>>

AfterCheckSession_NoRearm(a, task, t) ==
  IF a.sessionExpiry # <<>> /\ a.session # <<>> /\ t >= a.sessionExpiry[1]
  THEN [a EXCEPT !.tasks = (@ \ {task}) \cup {AuthTask("signOut", "storedExpiry", FALSE)}]
  ELSE [a EXCEPT !.tasks = @ \ {task}]

\* checkAndHandleSession after `await getSession()`: with a stored expiry
\* and a session it signs out when the expiry has passed and otherwise sets
\* a timer for the remaining time.
AfterCheckSession(a, task, t) ==
  IF a.sessionExpiry # <<>> /\ a.session # <<>>
  THEN IF t >= a.sessionExpiry[1]
       THEN [a EXCEPT !.tasks = (@ \ {task}) \cup {AuthTask("signOut", "storedExpiry", FALSE)}]
       ELSE [a EXCEPT !.timers = @ \cup {AuthTimer(a.sessionExpiry[1], "load")},
                      !.tasks = @ \ {task}]
  ELSE [a EXCEPT !.tasks = @ \ {task}]

CheckSessionDone ==
  /\ \E task \in auth.tasks :
       /\ task.kind = "checkSession"
       /\ auth' = AfterCheckSession(auth, task, now)
  /\ UNCHANGED <<sqlite, initPending, books, files, now, remote, call, events, coverCache>>

\* The page is reloaded: timers and pending awaits are gone, the session
\* and sessionExpiry stay in localStorage, and the effect runs again.
Reload ==
  /\ events < MaxEvents
  /\ events' = events + 1
  /\ auth' = AuthOnLoad(auth.session, auth.sessionExpiry)
  /\ UNCHANGED <<sqlite, initPending, books, files, now, remote, call, coverCache>>

\* AuthStep minutes pass while the page is open: a timer that is due fires
\* and a request that is awaited settles before the clock moves on.
AuthTick ==
  /\ auth.tasks = {}
  /\ \A timer \in auth.timers : timer.at > now
  /\ now + AuthStep <= MaxAuthTicks * AuthStep
  /\ now' = now + AuthStep
  /\ UNCHANGED <<sqlite, initPending, books, files, remote, call, events, coverCache, auth>>

NextAuth ==
  \/ SignIn
  \/ SignInDone
  \/ SignOut
  \/ SignOutDone
  \/ TimerFires
  \/ CheckSessionDone
  \/ Reload
  \/ AuthTick

SpecAuth == Init /\ [][NextAuth]_vars

(* ---------------------------------------------------------------------- *)
(* Properties                                                              *)
(* ---------------------------------------------------------------------- *)

\* The step of caller p that completes an `await saveBook(...)`.
IsSaveStep(p) == call[p].pc = "saveBook" /\ call'[p] # call[p]

\* The book handed to saveBook by the call c.
SavedBook(c) ==
  CASE c.op = "fetchBooks" -> c.newLocalBook[1]
    [] c.op = "updateBookProgress" -> c.localBook[1]
    [] c.op = "addManualBook" -> c.newBook[1]

\* C1: after every saveBook, getBooks lists exactly one record per id, and
\* the record listed for the id just saved is the book that was saved.
C1_ListAfterUpsert ==
  [][\A p \in Procs :
       IsSaveStep(p) =>
         LET saved == SavedBook(call[p])
             listed == GetBooks(sqlite', books')
         IN  /\ \A j, k \in 1..Len(listed) : listed[j].id = listed[k].id => j = k
             /\ \E k \in 1..Len(listed) : listed[k] = saved]_vars

\* The rows stored for an id.
RowsOf(rows, id) == {k \in 1..Len(rows) : rows[k].id = id}

\* The step in which caller p calls removeBook on a stored non-manual record.
IsRemoveOfNonManual(p) ==
  /\ call[p] = Idle
  /\ call'[p].op = "removeBook"
  /\ \E k \in RowsOf(books, call'[p].bookId) : books[k].is_manual = 0

\* C3: removeBook on a stored non-manual record, fresh or stale, fails with
\* the permission error and changes neither the table nor the files.
C3_RemoveNonManualRejected ==
  [][\A p \in Procs :
       IsRemoveOfNonManual(p) =>
         /\ call'[p].pc = "done"
         /\ call'[p].error = PermissionError
         /\ books' = books
         /\ files' = files]_vars

\* C3 witness: a removeBook on a stale non-manual record has been rejected.
C3_Witness ==
  \E p \in Procs :
    /\ call[p].op = "removeBook"
    /\ call[p].pc = "done"
    /\ call[p].error = PermissionError
    /\ \E k \in RowsOf(books, call[p].bookId) :
         books[k].is_manual = 0 /\ books[k].cache_expiry <= now
    /\ files # <<>>

\* C2: when removeBook has completed on a manual record, it has not failed,
\* the table holds no row for the id and none of the record's cached files
\* is left in the file system.
C2_RemoveManualClears ==
  \A p \in Procs :
    (/\ call[p].op = "removeBook"
     /\ call[p].pc = "done"
     /\ call[p].localBook # <<>>
     /\ call[p].localBook[1].is_manual)
    => /\ call[p].error = "none"
       /\ RowsOf(books, call[p].bookId) = {}
       /\ \A asset \in AssetTypes :
            LocalPath(call[p].localBook[1], asset) \notin DOMAIN files

\* The record rec is the stored row, with 1/0 read as booleans.
IsRecordOfRow(rec, row) ==
  /\ rec.is_manual = (row.is_manual = 1)
  /\ rec.synced_with_supabase = (row.synced_with_supabase = 1)
  /\ [rec EXCEPT !.is_manual = 0, !.synced_with_supabase = 0]
       = [row EXCEPT !.is_manual = 0, !.synced_with_supabase = 0]

\* The sequence list holds exactly the rows that are manual or expire after t.
IsValidSetOf(list, rows, t) ==
  /\ \A k \in 1..Len(rows) :
       (rows[k].is_manual = 1 \/ rows[k].cache_expiry > t)
         <=> (\E j \in 1..Len(list) : list[j].id = rows[k].id)
  /\ \A j \in 1..Len(list) :
       \E k \in 1..Len(rows) : IsRecordOfRow(list[j], rows[k])
  /\ \A i, j \in 1..Len(list) : list[i].id = list[j].id => i = j

\* The step in which caller p calls fetchBooks.
IsFetchStart(p) == call[p] = Idle /\ call'[p].op = "fetchBooks"

\* C4: a fetchBooks that finds the device offline returns exactly the valid
\* set of the table and leaves every row, expired ones included, in place.
C4_OfflineReturnsValidSet ==
  [][\A p \in Procs :
       (IsFetchStart(p) /\ call'[p].via = "offline") =>
         /\ call'[p].pc = "done"
         /\ call'[p].error = "none"
         /\ IsValidSetOf(call'[p].result, books, now)
         /\ books' = books
         /\ files' = files]_vars

\* C4 witness: an offline fetchBooks has returned while an expired synced
\* row is in the table.
C4_Witness ==
  \E p \in Procs :
    /\ call[p].op = "fetchBooks"
    /\ call[p].pc = "done"
    /\ call[p].via = "offline"
    /\ \E k \in 1..Len(books) :
         /\ books[k].is_manual = 0
         /\ books[k].cache_expiry <= now
         /\ \A j \in 1..Len(call[p].result) : call[p].result[j].id # books[k].id

\* C5: a fetchBooks whose remote select fails takes the valid set when it
\* reads the table, returns that set without an error, and changes neither
\* the table nor the files.
C5_RemoteFailureFallsBack ==
  [][\A p \in Procs :
       /\ (IsFetchStart(p) /\ call'[p].pc = "select") =>
            /\ IsValidSetOf(call'[p].validBooks, books, now)
            /\ books' = books
            /\ files' = files
       /\ (call[p].pc = "select" /\ call'[p].via = "remoteFailed") =>
            /\ call'[p].pc = "done"
            /\ call'[p].error = "none"
            /\ call'[p].result = call[p].validBooks
            /\ books' = books
            /\ files' = files]_vars

\* C5 witness: a fetchBooks whose select failed has returned a cached record.
C5_Witness ==
  \E p \in Procs :
    /\ call[p].op = "fetchBooks"
    /\ call[p].pc = "done"
    /\ call[p].via = "remoteFailed"
    /\ call[p].result # <<>>
    /\ IsValidSetOf(call[p].result, books, now)

\* The step of caller p that completes the saveBook of a merged record.
IsMergeSave(p) == call[p].op = "fetchBooks" /\ IsSaveStep(p)

\* C6: the saveBook of a reconciliation pass leaves, as the one row stored
\* for the id of the remote row, a record with the values of the row, the
\* local paths that the existing record already had, is_manual false,
\* synced_with_supabase true and an expiry of now plus CACHE_DURATION.
C6_MergedRecord ==
  [][\A p \in Procs :
       IsMergeSave(p) =>
         LET row == Head(call[p].supabaseBooks)
             existing == call[p].localBook
         IN  /\ Cardinality(RowsOf(books', row.id)) = 1
             /\ \A k \in RowsOf(books', row.id) :
                  LET stored == FromRow(books'[k])
                  IN  /\ stored.title = row.title
                      /\ stored.content_url = row.content_url
                      /\ stored.narration_url = row.narration_url
                      /\ stored.podcast_url = row.podcast_url
                      /\ stored.read_progress = row.read_progress
                      /\ stored.updated_at = row.updated_at
                      /\ \A asset \in AssetTypes :
                           (existing # <<>> /\ LocalPath(existing[1], asset) # NOPATH)
                             => LocalPath(stored, asset) = LocalPath(existing[1], asset)
                      /\ stored.is_manual = FALSE
                      /\ stored.synced_with_supabase = TRUE
                      /\ stored.cache_expiry = now + CACHE_DURATION]_vars

\* Caller p is inside cacheFile for the asset of the remote row it processes.
InFlight(p, asset) == call[p].op = "fetchBooks" /\ call[p].pc = CachePc(asset)

InFlightId(p) == Head(call[p].supabaseBooks).id

\* The urls the remote catalog can name for an asset of the book id.
UrlsOf(id, asset) ==
  CASE asset = "content" -> {Url(id, "c1"), Url(id, "c2")}
    [] asset = "narration" -> {Url(id, "n1")}
    [] asset = "podcast" -> {Url(id, "p1")}

\* The file system holds a blob written for the asset of the book id.
WrittenFor(fs, id, asset) ==
  \E path \in DOMAIN fs : \E url \in UrlsOf(id, asset) : fs[path] = Base64Of(url)

\* The step in which the cacheFile of caller p writes its blob.
IsCacheWrite(p, asset) ==
  /\ InFlight(p, asset)
  /\ call'[p].op = "fetchBooks"
  /\ call'[p].newLocalBook # <<>>
  /\ call'[p].supabaseBooks = call[p].supabaseBooks
  /\ LocalPath(call'[p].newLocalBook[1], asset)
       # LocalPath(call[p].newLocalBook[1], asset)

\* C7: in successive passes each asset of a book is written to the blob
\* cache at most once: no cacheFile writes a blob for an asset of a book for
\* which a blob has been written before.
C7_NoRecache ==
  [][\A p \in Procs, asset \in AssetTypes :
       IsCacheWrite(p, asset) => ~WrittenFor(files, InFlightId(p), asset)]_vars

\* C8: no two callers are inside cacheFile for the same asset of the same
\* book at the same time.
C8_OneInFlightPerAsset ==
  \A p, q \in Procs, asset \in AssetTypes :
    (p # q /\ InFlight(p, asset) /\ InFlight(q, asset))
      => InFlightId(p) # InFlightId(q)

\* The ids of the records of a sequence.
IdsOf(list) == {list[k].id : k \in 1..Len(list)}

\* The step in which the addManualBook of caller p returns its record.
IsImportDone(p) ==
  /\ call[p].op = "addManualBook"
  /\ call[p].pc = "saveBook"
  /\ call'[p].pc = "done"
  /\ call'[p].error = "none"

\* C9: a manual record is returned by every fetchBooks from its import to
\* its removal: the import leaves it in the table as a manual row, only a
\* removeBook of its id takes a manual row out of the table, every manual
\* row in the table when fetchBooks reads it is in the valid set of the call
\* whatever its cache_expiry, and every manual record of the valid set is in
\* the result when the call returns, offline, after a failed select or after
\* the merge.
C9_ManualNeverExpires ==
  [][/\ \A p \in Procs :
          /\ IsImportDone(p) =>
               \E k \in RowsOf(books', call'[p].result[1].id) :
                 IsRecordOfRow(call'[p].result[1], books'[k])
          /\ IsFetchStart(p) =>
               \A k \in 1..Len(books) :
                 books[k].is_manual = 1 =>
                   books[k].id \in IdsOf(IF call'[p].pc = "done" THEN call'[p].result
                                         ELSE call'[p].validBooks)
          /\ (call[p].op = "fetchBooks" /\ call[p].pc # "done" /\ call'[p].pc = "done") =>
               /\ call'[p].error = "none"
               /\ \A k \in 1..Len(call[p].validBooks) :
                    call[p].validBooks[k].is_manual =>
                      \E j \in 1..Len(call'[p].result) :
                        call'[p].result[j] = call[p].validBooks[k]
     /\ \A k \in 1..Len(books) :
          (books[k].is_manual = 1 /\ RowsOf(books', books[k].id) = {}) =>
            \E p \in Procs : call[p].op = "removeBook" /\ call[p].bookId = books[k].id]_vars

\* C10: a stored row is manual exactly when its id is a locally generated
\* one, no step changes the is_manual of a stored id, and the saveBook of a
\* merge leaves every manual row as it is.
C10_ManualFlagStable ==
  [][/\ \A k \in 1..Len(books') :
          (books'[k].is_manual = 1) <=> (books'[k].id[1] = "manual")
     /\ \A j \in 1..Len(books), k \in 1..Len(books') :
          books[j].id = books'[k].id => books[j].is_manual = books'[k].is_manual
     /\ \A p \in Procs :
          IsMergeSave(p) =>
            \A j \in 1..Len(books) :
              books[j].is_manual = 1 => \E k \in 1..Len(books') : books'[k] = books[j]]_vars

\* C10 witness: a merged pass has returned while the table holds a manual row
\* and a synced row.
C10_Witness ==
  /\ \E p \in Procs :
       call[p].op = "fetchBooks" /\ call[p].pc = "done" /\ call[p].via = "merged"
  /\ \E k \in 1..Len(books) : books[k].is_manual = 1
  /\ \E k \in 1..Len(books) : books[k].is_manual = 0

\* C11: the read_progress stored for a book is the value written last.  The
\* only writers of the remote read_progress are the updateBookProgress calls,
\* each after its local write, so a remote value that differs from the stored
\* one is an older one: the saveBook of a reconciliation pass leaves the
\* stored read_progress of a book already in the table as it is.
C11_ProgressNotReverted ==
  [][\A p \in Procs :
       IsMergeSave(p) =>
         LET id == Head(call[p].supabaseBooks).id
         IN  \A j \in RowsOf(books, id), k \in RowsOf(books', id) :
               books'[k].read_progress = books[j].read_progress]_vars

\* The step in which caller p calls updateBookProgress.
IsUpdateStart(p) == call[p] = Idle /\ call'[p].op = "updateBookProgress"

\* The step after which updateBookProgress of caller p has passed the test
\* for the remote update.
IsUpdateDecided(p) ==
  /\ call'[p].op = "updateBookProgress"
  /\ call[p].pc \notin {"remoteUpdate", "done"}
  /\ call'[p].pc \in {"remoteUpdate", "done"}

\* The step in which the remote update of caller p settles.
IsRemoteUpdateStep(p) ==
  /\ call[p].op = "updateBookProgress"
  /\ call[p].pc = "remoteUpdate"
  /\ call'[p] # call[p]

\* C12: updateBookProgress(id, progress) on a record in the table goes on to
\* the local write, the write leaves one row for id with read_progress equal
\* to progress, the call never throws, and when the device is offline no
\* remote update is issued and the catalog is untouched.
C12_UpdateWritesLocally ==
  [][\A p \in Procs :
       /\ (IsUpdateStart(p) /\ RowsOf(books, call'[p].bookId) # {}) =>
            call'[p].pc = "saveBook"
       /\ (call[p].op = "updateBookProgress" /\ IsSaveStep(p)) =>
            /\ Cardinality(RowsOf(books', call[p].bookId)) = 1
            /\ \A k \in RowsOf(books', call[p].bookId) :
                 books'[k].read_progress = call[p].progress
       /\ call'[p].op = "updateBookProgress" => call'[p].error # "thrown"
       /\ (IsUpdateDecided(p) /\ ~call'[p].onLine) =>
            /\ call'[p].pc = "done"
            /\ ~call'[p].remoteIssued
            /\ remote' = remote]_vars

\* C12 witness: an offline updateBookProgress on a synced record that has
\* expired has returned, and the row holds the new progress.
C12_Witness ==
  \E p \in Procs :
    /\ call[p].op = "updateBookProgress"
    /\ call[p].pc = "done"
    /\ ~call[p].onLine
    /\ call[p].error = "none"
    /\ \E k \in RowsOf(books, call[p].bookId) :
         /\ books[k].is_manual = 0
         /\ books[k].cache_expiry <= now
         /\ books[k].read_progress = call[p].progress

\* C13: when the remote update settles, failed or not, the call is done and
\* has not thrown, the table is as the local write left it, and a failed
\* update leaves the catalog as it was; the call has no step after it, so
\* it issues one remote update at most.
C13_RemoteFailureKeepsLocal ==
  [][\A p \in Procs :
       IsRemoteUpdateStep(p) =>
         /\ call'[p].pc = "done"
         /\ call'[p].error \in {"none", "logged"}
         /\ books' = books
         /\ call'[p].error = "logged" => remote' = remote]_vars

\* C13 witness: an updateBookProgress whose remote update failed has
\* returned; the row holds the new progress, the catalog the old one.
C13_Witness ==
  \E p \in Procs :
    /\ call[p].op = "updateBookProgress"
    /\ call[p].pc = "done"
    /\ call[p].error = "logged"
    /\ \E k \in RowsOf(books, call[p].bookId) :
         books[k].read_progress = call[p].progress
    /\ call[p].bookId \in DOMAIN remote
    /\ remote[call[p].bookId].read_progress # call[p].progress

\* C14: updateBookProgress issues the remote update exactly when the device
\* is online and the row of the book, as the local write left it, is synced;
\* it issues it right after the local write, never for a manual row, and
\* nothing else of the application changes a read_progress of the catalog.
C14_RemoteUpdateIffSyncedOnline ==
  [][/\ \A p \in Procs :
          IsUpdateDecided(p) =>
            /\ (call'[p].pc = "remoteUpdate") <=>
                 /\ call'[p].onLine
                 /\ \E k \in RowsOf(books', call'[p].bookId) :
                      books'[k].synced_with_supabase = 1
            /\ call'[p].remoteIssued <=> (call'[p].pc = "remoteUpdate")
            /\ call'[p].pc = "remoteUpdate" =>
                 /\ call[p].pc = "saveBook"
                 /\ \A k \in RowsOf(books', call'[p].bookId) :
                      /\ books'[k].is_manual = 0
                      /\ books'[k].read_progress = call'[p].progress
     /\ \A id \in (DOMAIN remote) \cap (DOMAIN remote') :
          remote'[id].read_progress # remote[id].read_progress =>
            \E p \in Procs : IsRemoteUpdateStep(p) /\ call[p].bookId = id]_vars

\* C14 witness: the remote update of a synced book is in flight and the row
\* already holds the new progress.
C14_Witness ==
  \E p \in Procs :
    /\ call[p].op = "updateBookProgress"
    /\ call[p].pc = "remoteUpdate"
    /\ \E k \in RowsOf(books, call[p].bookId) :
         /\ books[k].synced_with_supabase = 1
         /\ books[k].read_progress = call[p].progress

\* The step in which a cacheFile called by caller p returns a path.
IsCacheFileReturn(p) ==
  \/ \E asset \in AssetTypes : IsCacheWrite(p, asset)
  \/ /\ call[p].op = "addManualBook"
     /\ call[p].pc = "cacheFile"
     /\ call'[p].pc = "saveBook"

\* The path that cacheFile returns in that step.
ReturnedPath(p) ==
  IF call[p].op = "addManualBook" THEN call'[p].newBook[1].local_content_path
  ELSE LocalPath(call'[p].newLocalBook[1],
                 CHOOSE asset \in AssetTypes : CachePc(asset) = call[p].pc)

\* The source that cacheFile fetched in that step.
FetchedSource(p) ==
  IF call[p].op = "addManualBook" THEN call[p].file
  ELSE RemoteUrl(Head(call[p].supabaseBooks),
                 CHOOSE asset \in AssetTypes : CachePc(asset) = call[p].pc)

\* C15: the record that a successful addManualBook returns is the row then
\* stored for its id, has is_manual true, synced_with_supabase false and a
\* local_content_path, and readCachedFile of that path gives the bytes of
\* the imported file.
C15_ManualImportRecord ==
  [][\A p \in Procs :
       IsImportDone(p) =>
         LET rec == call'[p].result[1]
         IN  /\ rec.is_manual
             /\ ~rec.synced_with_supabase
             /\ rec.local_content_path # NOPATH
             /\ ReadCachedFile(files', rec.local_content_path) = <<call[p].file>>
             /\ \E k \in RowsOf(books', rec.id) : IsRecordOfRow(rec, books'[k])]_vars

\* C16: the id that addManualBook generates is the id of no row of the
\* table, and the saveBook of an import replaces no row.
C16_ManualIdFresh ==
  [][\A p \in Procs :
       /\ (call[p] = Idle /\ call'[p].op = "addManualBook") =>
            RowsOf(books, call'[p].bookId) = {}
       /\ (call[p].op = "addManualBook" /\ IsSaveStep(p)) =>
            RowsOf(books, call[p].newBook[1].id) = {}]_vars

\* C17: a path returned by cacheFile is the path of no file written before.
C17_CachePathUnique ==
  [][\A p \in Procs :
       IsCacheFileReturn(p) => ReturnedPath(p) \notin DOMAIN files]_vars

\* C18: readCachedFile of the path that cacheFile returns gives the bytes
\* fetched from the source, and a cacheFile leaves what readCachedFile gives
\* for every path returned before.
C18_CacheRoundTrip ==
  [][\A p \in Procs :
       IsCacheFileReturn(p) =>
         /\ ReadCachedFile(files', ReturnedPath(p)) = <<FetchedSource(p)>>
         /\ \A path \in DOMAIN files :
              ReadCachedFile(files', path) = ReadCachedFile(files, path)]_vars

\* The step in which a cacheFile of the pass of caller p throws: the catch
\* block of the loop body logs and the loop goes on with the next row.
IsCacheFail(p) ==
  /\ \E asset \in AssetTypes : InFlight(p, asset) /\ ~IsCacheWrite(p, asset)
  /\ call'[p] # call[p]

\* The rows of the catalog that the pass c has gone through without pushing
\* a record: those whose processing threw.  The catalog does not change
\* during a pass.
HasFailed(c) ==
  Len(c.processedBooks) + Len(c.supabaseBooks) < Cardinality(DOMAIN remote)

\* C19: a cacheFile that throws during a pass changes neither the table nor
\* the files and the pass goes on to the next row and returns without error;
\* every row of such a pass that is saved is persisted and is in the list
\* returned; and a pass saves a record only after it has a path for every
\* asset the row names, so an asset that failed before is fetched again.
C19_PartialFailureIsolated ==
  [][\A p \in Procs :
       /\ IsCacheFail(p) =>
            /\ books' = books
            /\ files' = files
            /\ call'[p].error = "none"
            /\ \/ /\ call'[p].pc = "getBook"
                  /\ call'[p].supabaseBooks = Tail(call[p].supabaseBooks)
               \/ call'[p].pc = "done" /\ call'[p].via = "merged"
       /\ (IsMergeSave(p) /\ HasFailed(call[p])) =>
            LET merged == call[p].newLocalBook[1]
                listed == IF call'[p].pc = "done" THEN call'[p].result
                          ELSE call'[p].processedBooks
            IN  /\ \E k \in RowsOf(books', merged.id) : IsRecordOfRow(merged, books'[k])
                /\ \E j \in 1..Len(listed) : listed[j] = merged
       /\ (call'[p].op = "fetchBooks" /\ call'[p].pc = "saveBook") =>
            \A asset \in AssetTypes :
              RemoteUrl(Head(call'[p].supabaseBooks), asset) # NULL =>
                LocalPath(call'[p].newLocalBook[1], asset) # NOPATH]_vars

\* The step in which the fetchBooks of caller p returns after the merge.
IsMergedReturn(p) ==
  /\ call[p].op = "fetchBooks"
  /\ call[p].pc # "done"
  /\ call'[p].pc = "done"
  /\ call'[p].via = "merged"

\* C20: a fetchBooks whose select succeeded returns one merged record per
\* row of the catalog, in the order of the select, each of them the row
\* stored for its id, followed by the manual records of the valid set, and
\* nothing else.
C20_MergedResult ==
  [][\A p \in Procs :
       IsMergedReturn(p) =>
         LET selected == SelectAllDesc(remote, DOMAIN remote)
             manual == ManualBooks(call[p].validBooks)
             result == call'[p].result
         IN  /\ Len(result) = Len(selected) + Len(manual)
             /\ \A i \in 1..Len(selected) :
                  /\ result[i].id = selected[i].id
                  /\ ~result[i].is_manual
                  /\ \E k \in RowsOf(books', result[i].id) :
                       IsRecordOfRow(result[i], books'[k])
             /\ \A j \in 1..Len(manual) : result[Len(selected) + j] = manual[j]]_vars

\* C21: a fetchBooks that returns after the merge returns a record for every
\* book of the catalog whose local record was in its valid set, also when a
\* cacheFile for that book threw during the pass.
C21_FailedBookFallsBack ==
  [][\A p \in Procs :
       IsMergedReturn(p) =>
         \A k \in 1..Len(call[p].validBooks) :
           (~call[p].validBooks[k].is_manual /\ call[p].validBooks[k].id \in DOMAIN remote)
             => call[p].validBooks[k].id \in IdsOf(call'[p].result)]_vars

\* initializeStorage has settled without setting this.sqlite.
InitFailed == sqlite = "null" /\ ~initPending

\* C22: once the initialisation of the storage has failed, the getBooks that
\* fetchBooks starts with does not give the empty list, and a caller that
\* awaits saveBook does not go on as after a successful write.
C22_InitFailureSurfaced ==
  [][\A p \in Procs :
       /\ (InitFailed /\ IsFetchStart(p)) => GetBooks(sqlite, books) # <<>>
       /\ (InitFailed /\ IsSaveStep(p)) => call'[p].error = "thrown"]_vars

\* The step in which the fetchBooks of caller p returns.
IsFetchReturn(p) ==
  /\ call'[p].op = "fetchBooks"
  /\ call'[p].pc = "done"
  /\ call[p].pc # "done"

\* The valid set of the fetchBooks that returns in that step.
ValidSetOfReturn(p) ==
  IF call[p] = Idle THEN ValidBooks(GetBooks(sqlite, books), now)
  ELSE call[p].validBooks

\* A record of the first book that has been merged again after its first
\* expiry: under SpecMerged the book is stored from the start with the
\* expiry CACHE_DURATION.
IsFreshAgain(rec) ==
  /\ rec.id = FirstBook
  /\ ~rec.is_manual
  /\ rec.cache_expiry > CACHE_DURATION

\* C23: no fetchBooks returns a synced record whose cache_expiry has passed;
\* the saveBook of a pass for a book whose stored record has expired stores
\* it with an expiry in the future and puts it in the list the pass returns;
\* and a record merged again is returned by every later fetchBooks that
\* finds it in its valid set, as long as the catalog lists the book.
C23_ExpiredUntilRemerged ==
  [][\A p \in Procs :
       /\ IsFetchReturn(p) =>
            \A j \in 1..Len(call'[p].result) :
              call'[p].result[j].is_manual \/ call'[p].result[j].cache_expiry > now
       /\ (IsMergeSave(p)
             /\ \E j \in RowsOf(books, Head(call[p].supabaseBooks).id) :
                  books[j].cache_expiry <= now) =>
            LET merged == call[p].newLocalBook[1]
                listed == IF call'[p].pc = "done" THEN call'[p].result
                          ELSE call'[p].processedBooks
            IN  /\ \A k \in RowsOf(books', merged.id) : books'[k].cache_expiry > now
                /\ RowsOf(books', merged.id) # {}
                /\ \E j \in 1..Len(listed) : listed[j] = merged
       /\ IsFetchReturn(p) =>
            \A k \in 1..Len(ValidSetOfReturn(p)) :
              (IsFreshAgain(ValidSetOfReturn(p)[k])
                 /\ ValidSetOfReturn(p)[k].id \in DOMAIN remote)
                => ValidSetOfReturn(p)[k].id \in IdsOf(call'[p].result)]_vars

\* C28: the saveBook of updateBookProgress changes, in the row stored for
\* the book at that moment, read_progress and updated_at and nothing else,
\* so the local paths and the cache_expiry that a reconciliation pass has
\* written meanwhile stay.
C28_UpdateKeepsMerge ==
  [][\A p \in Procs :
       (call[p].op = "updateBookProgress" /\ IsSaveStep(p)) =>
         \A j \in RowsOf(books, call[p].bookId), k \in RowsOf(books', call[p].bookId) :
           books'[k] = [books[j] EXCEPT !.read_progress = call[p].progress,
                                        !.updated_at = call[p].localBook[1].updated_at]]_vars

\* C24: a row leaves the Record Store only in the DELETE of a removeBook
\* for that id whose record is manual, and an entry leaves the Blob Cache
\* only in the deleteFile of a removeBook of a manual record; no step of
\* fetchBooks, updateBookProgress, addManualBook or a rejected removeBook
\* deletes either.
C24_OnlyManualRemovalDestroys ==
  [][/\ \A j \in 1..Len(books) :
          RowsOf(books', books[j].id) = {} =>
            /\ FromRow(books[j]).is_manual
            /\ \E p \in Procs : /\ call[p].op = "removeBook"
                                /\ call[p].pc = "deleteRun"
                                /\ call[p].bookId = books[j].id
     /\ \A path \in DOMAIN files \ DOMAIN files' :
          \E p \in Procs : /\ call[p].op = "removeBook"
                           /\ call[p].pc = "deleteFile"
                           /\ call[p].localBook[1].is_manual
                           /\ Head(call[p].filesToDelete) = path]_vars

\* A removeBook has been rejected while a record and a cached asset are stored.
C24_Witness ==
  \E p \in Procs :
    /\ call[p].op = "removeBook"
    /\ call[p].pc = "done"
    /\ call[p].error = PermissionError
    /\ Len(books) > 0
    /\ DOMAIN files # {}

\* The step in which caller p calls getBookCover.
IsCoverGet(p) == call[p] = Idle /\ call'[p].op = "getBookCover"

\* C25: a getBookCover for an id whose cover was generated less than
\* CACHE_DURATION ago returns the cached image and leaves the Cover Cache,
\* timestamps included, as it is; a getBookCover for an id whose cover is
\* CACHE_DURATION old or older generates again and stamps it with the
\* current time; and no step removes or changes an entry younger than
\* CACHE_DURATION.
C25_CoverMemoized ==
  [][/\ \A p \in Procs :
          (IsCoverGet(p) /\ call'[p].bookId \in DOMAIN coverCache) =>
            LET bookId == call'[p].bookId
                age == now - coverCache[bookId].timestamp
            IN  /\ age < COVER_CACHE_DURATION =>
                     /\ call'[p].result = coverCache[bookId].dataUrl
                     /\ coverCache' = coverCache
                /\ age >= COVER_CACHE_DURATION =>
                     /\ coverCache'[bookId].timestamp = now
                     /\ call'[p].result = coverCache'[bookId].dataUrl
                     /\ call'[p].result[3] = call'[p].title
     /\ \A bookId \in DOMAIN coverCache :
          now - coverCache[bookId].timestamp < COVER_CACHE_DURATION =>
            /\ bookId \in DOMAIN coverCache'
            /\ coverCache'[bookId] = coverCache[bookId]]_vars

\* On the last day before the expiry a getBookCover with another title has
\* returned the image generated for the first title.
C25_Witness ==
  \E p \in Procs :
    /\ call[p].op = "getBookCover"
    /\ call[p].bookId \in DOMAIN coverCache
    /\ now - coverCache[call[p].bookId].timestamp = COVER_CACHE_DURATION - 1
    /\ call[p].result = coverCache[call[p].bookId].dataUrl
    /\ call[p].result[3] # call[p].title

\* The record that a read gives for a stored row: a JSON column whose text
\* is not JSON reads as the empty sequence, a JSON column with JSON text as
\* the value of the text, a boolean column as the truth of 0/1, and every
\* other column as stored.
IsReadOf(rec, row) ==
  /\ DOMAIN rec = DOMAIN row
  /\ \A col \in DOMAIN row :
       IF col \in JsonColumns
         THEN rec[col] = (IF row[col] = <<>> \/ row[col] = <<"corrupt">> THEN <<>>
                          ELSE row[col][2])
       ELSE IF col \in BooleanColumns THEN rec[col] = (row[col] = 1)
       ELSE rec[col] = row[col]

\* C26: getBooks and getBook give a record for every row they select, also
\* when a JSON column of a row holds a text that is not JSON: that field
\* reads as the empty sequence, and the other fields of the record and the
\* other records are as stored.
C26_CorruptJsonReadsEmpty ==
  \A p \in Procs :
    /\ call[p].op = "getBooks" =>
         /\ Len(call[p].result) = Len(books)
         /\ \A k \in 1..Len(books) : IsReadOf(call[p].result[k], books[k])
    /\ call[p].op = "getBook" =>
         \A k \in RowsOf(books, call[p].bookId) :
           /\ Len(call[p].result) = 1
           /\ IsReadOf(call[p].result[1], books[k])

\* getBooks has read two rows, the first with a corrupt highlighted_words
\* next to a difficult_words that holds a word.
C26_Witness ==
  \E p \in Procs :
    /\ call[p].op = "getBooks"
    /\ Len(books) = 2
    /\ books[1].highlighted_words = <<"corrupt">>
    /\ books[1].difficult_words = JsonStringify(<<"w">>)
    /\ call[p].result[1].highlighted_words = <<>>
    /\ call[p].result[1].difficult_words = <<"w">>

\* C27: a row of the table stays in the table across every step, a restart
\* of the process included, except the DELETE of a removeBook for its id.
C27_RecordSurvivesRestart ==
  [][\A j \in 1..Len(books) :
       \/ RowsOf(books', books[j].id) # {}
       \/ \E p \in Procs : /\ call[p].op = "removeBook"
                           /\ call[p].pc = "deleteRun"
                           /\ call[p].bookId = books[j].id]_vars

\* C29: while a cacheFile of a pass is pending and other rows of the pass
\* are still to be merged, the pass can take a step that is not the
\* completion of that cacheFile, so the other rows do not wait for it.
C29_OtherBooksNotDelayed ==
  \A p \in Procs, asset \in AssetTypes :
    (InFlight(p, asset) /\ Len(call[p].supabaseBooks) > 1) =>
      ENABLED (\/ ProcessGetBook(p)
               \/ ProcessSaveBook(p)
               \/ \E other \in AssetTypes \ {asset} : ProcessCacheFile(p, other))

\* C30: in every state each local_content_path, local_narration_path and
\* local_podcast_path that is not null in a stored row names a file that
\* is present in the Filesystem.
C30_StoredPathsHaveBlobs ==
  \A j \in 1..Len(books) :
    \A path \in Range(FilesToDelete(FromRow(books[j]))) : path \in DOMAIN files

\* C31: in every state a sweep run now keeps exactly the entries that
\* getBookCover would return as fresh: it removes none of those, and it
\* leaves none that getBookCover would generate again.
C31_SweepAgreesWithGet ==
  \A bookId \in DOMAIN coverCache :
    (bookId \in DOMAIN SweptCache(coverCache, now))
      <=> IsCoverFresh(coverCache, bookId, now)

\* The records of the Record Store that name the path in a local_*_path.
RecordsNaming(path) ==
  {j \in 1..Len(books) : path \in Range(FilesToDelete(FromRow(books[j])))}

\* C32: whenever no call is in progress, every file of the Blob Cache is
\* named by a local_*_path of exactly one stored record.
C32_NoOrphanBlobs ==
  Quiescent =>
    \A path \in DOMAIN files : Cardinality(RecordsNaming(path)) = 1

\* C33: every saveBook that returns, also one made before the
\* initializeStorage started by the constructor has settled, has written a
\* row for its book, and a getBook for the id that follows it finds the
\* book that was saved.
C33_NoWriteLost ==
  [][\A p \in Procs :
       IsSaveStep(p) =>
         LET saved == SavedBook(call[p])
         IN  /\ RowsOf(books', saved.id) # {}
             /\ GetBook(sqlite', books', saved.id) = <<saved>>]_vars

\* C34: the list that a fetchBooks has returned, whether from the offline
\* path, the remote-failure path or the merge, holds no two records with
\* the same id.
C34_ResultIdsDistinct ==
  \A p \in Procs :
    (call[p].op = "fetchBooks" /\ call[p].pc = "done") =>
      \A j, k \in 1..Len(call[p].result) :
        call[p].result[j].id = call[p].result[k].id => j = k

\* A merged fetchBooks has returned a synced record together with a manual
\* record.
C34_Witness ==
  \E p \in Procs :
    /\ call[p].op = "fetchBooks"
    /\ call[p].pc = "done"
    /\ call[p].via = "merged"
    /\ \E j, k \in 1..Len(call[p].result) :
         /\ call[p].result[j].is_manual
         /\ ~call[p].result[k].is_manual

\* C35: an updateBookProgress for an id that has no row in the table
\* returns at once without an error and without a remote update, whatever
\* navigator.onLine, and leaves the table and the catalog as they are.
C35_UpdateOfMissingIsNoOp ==
  [][\A p \in Procs :
       (IsUpdateStart(p) /\ RowsOf(books, call'[p].bookId) = {}) =>
         /\ call'[p].pc = "done"
         /\ call'[p].error = "none"
         /\ ~call'[p].remoteIssued
         /\ books' = books
         /\ remote' = remote]_vars

\* An updateBookProgress made online for a book that the catalog lists and
\* that has no local record has returned.
C35_Witness ==
  \E p \in Procs :
    /\ call[p].op = "updateBookProgress"
    /\ call[p].pc = "done"
    /\ call[p].localBook = <<>>
    /\ call[p].onLine
    /\ call[p].bookId \in DOMAIN remote
    /\ RowsOf(books, call[p].bookId) = {}

\* The step in which caller p calls removeBook.
IsRemoveStart(p) == call[p] = Idle /\ call'[p].op = "removeBook"

\* C36: a removeBook for an id that has no row in the table returns at once
\* without an error, the permission error included, and leaves the table
\* and the Filesystem as they are.
C36_RemoveOfMissingIsNoOp ==
  [][\A p \in Procs :
       (IsRemoveStart(p) /\ RowsOf(books, call'[p].bookId) = {}) =>
         /\ call'[p].pc = "done"
         /\ call'[p].error = "none"
         /\ books' = books
         /\ files' = files]_vars

\* A removeBook for an id without a record has returned while another
\* record and its cached file are stored.
C36_Witness ==
  \E p \in Procs :
    /\ call[p].op = "removeBook"
    /\ call[p].pc = "done"
    /\ call[p].localBook = <<>>
    /\ RowsOf(books, call[p].bookId) = {}
    /\ Len(books) > 0
    /\ DOMAIN files # {}

C38_RememberedSessionNotExpired ==
  [][(auth.session # <<>> /\ auth.session[1].rememberMe /\ auth'.session = <<>>) =>
       \E task \in auth.tasks \ auth'.tasks :
         task.kind = "signOut" /\ task.by = "user"]_vars

====
